---- MODULE Spec2Model ----
(***************************************************************************)
(* The data generator of data-generator/generator.py: get_db_connection,   *)
(* get_random_customer_id, insert_order, update_random_order,              *)
(* insert_customer and the loop of main, over a database that holds the    *)
(* customers and orders tables.                                            *)
(*                                                                         *)
(* The database is seen through the psycopg2 calls the code makes.  A call *)
(* on an open connection returns, raises with the connection still usable  *)
(* (a query error), or raises because the connection was lost; after a     *)
(* loss every further call on that connection raises, rollback() included. *)
(* Rows written in a transaction are visible to others only after a        *)
(* commit() that returned; a commit() that raises has committed nothing.   *)
(* datetime.now() never goes back; it advances only while the program     *)
(* sleeps, by zero or one unit of the clock's resolution.                  *)
(* The storage is not assumed to enforce the foreign key of orders: what   *)
(* the tables hold is what the code wrote.                                 *)
(* A KeyboardInterrupt is delivered at most once, between any two          *)
(* statements of main.                                                     *)
(***************************************************************************)
EXTENDS Integers, Sequences, FiniteSets

\* ---------------------------------------------------------------- bounds
\* The count of main is followed up to MaxIdleOps while the orders table is
\* empty and up to MaxOps once it holds an order.
MaxOrders == 2
MaxCustomers == 2
MaxTime == 1
MaxOps == 3
MaxIdleOps == 21

\* ------------------------------------------------------- program constants
None == -1

ORDER_STATUSES == {"pending", "processing", "shipped", "delivered", "cancelled"}

UpdatableStatuses == {"pending", "processing", "shipped"}

\* the new status drawn from the full status list
NewStatuses_any == ORDER_STATUSES

NewStatuses == {"processing", "shipped", "delivered"}

Operations == {"insert_order", "update_order", "insert_customer"}

\* fake.unique.email(): the addresses the generator can draw
Emails == {"a@x", "b@x"}

\* random.uniform(0, 1000.0) in the place of random.uniform(10.0, 1000.0)
UniformDraws_from_zero == {k \in 0 .. 8000 : k <= 1 \/ k >= 7999}

\* random.uniform(10.0, 1000.0) before rounding.  A draw k stands for the
\* float k/8, which is held exactly; the draws kept are those next to the two
\* ends of the interval, ties between two cents among them.
UniformDraws == {k \in 80 .. 8000 : k <= 81 \/ k >= 7999}

\* the draw the loop of main is explored with
AmountDraws == {7999}

\* round(x, 2) of the draw x = k/8, as a number of cents: the nearest cent,
\* and of two equally near ones the even one
Round2(k) ==
    LET q == (k * 25) \div 2
    IN  IF (k * 25) % 2 = 0 \/ q % 2 = 0 THEN q ELSE q + 1

\* the running total is logged at every LogEvery-th successful tick
LogEvery == 10

\* the test "operation_count % 10 == 0" made on the count before it is
\* incremented
LogDue_before(count) == (count - 1) % LogEvery = 0

\* main: "if operation_count % 10 == 0"
LogDue(count) == count % LogEvery = 0

\* what a database round trip can raise on an open connection: a query error
\* that leaves the connection usable, or the loss of the connection
Faults == {"DatabaseError", "OperationalError"}

VARIABLES
    pc,               \* position of main
    conn,             \* the connection main holds: none, open, broken, closed
    dbUp,             \* whether the server accepts connections
    db,               \* committed contents: [customers, orders]
    txn,              \* contents as seen inside the open transaction
    operation,        \* the operation selected for this tick
    operation_count,  \* main's counter
    now,              \* datetime.now()
    generated,        \* e-mails fake.unique has already produced
    ret,              \* value returned by the operation function
    interrupted,      \* a KeyboardInterrupt has been delivered
    exitKind,         \* how main left its loop
    reported,         \* total logged by the finally block, None before
    logged,           \* the running totals logged by the loop, in order
    tick              \* bookkeeping of the current tick

vars == <<pc, conn, dbUp, db, txn, operation, operation_count, now, generated,
          ret, interrupted, exitKind, reported, logged, tick>>

\* ------------------------------------------------------------- the tables
Customer(id, email) == [id |-> id, email |-> email]

Order(cid, date, amount, status) ==
    [customer_id |-> cid, order_date |-> date, total_amount |-> amount,
     status |-> status, updated_at |-> None]

CustomerIds(view) == {c.id : c \in view.customers}

CustomerEmails(view) == {c.email : c \in view.customers}

OrderIds(view) == 1 .. Len(view.orders)

Max(S) == CHOOSE x \in S : \A y \in S : y <= x

\* id the storage generates for a new customer row
NextCustomerId(view) ==
    IF view.customers = {} THEN 1 ELSE Max(CustomerIds(view)) + 1

\* databases the generator may be started on
SeedDbs ==
    { [customers |-> cs, orders |-> <<>>] :
        cs \in { {}, {Customer(1, "a@x")}, {Customer(0, "a@x")} } }

\* slept: the time.sleep(WRITE_INTERVAL) calls completed since the last tick
\* began, None before the first tick
FreshTick(d) ==
    [ops |-> 0, writes |-> 0, commits |-> 0, counted |-> 0, rollbacks |-> 0,
     exc |-> "none", before |-> d, slept |-> 0]

\* ------------------------------------------------- the functions of the code
\* Each function is the set of the results a call can have: the exception it
\* lets out ("none" when it returns), the value it returns, the table it
\* leaves in the transaction, and the number of rows its INSERT or UPDATE
\* wrote (the row is written whether or not its values change).

\* the guard "if customer_id:" left out
Truthy_always(id) == TRUE

\* Python truth value of a customer id: None and 0 are false
Truthy(id) == id # None /\ id # 0

\* a customer id guessed from the number of customers instead of selected
get_random_customer_id_guess(view) ==
    {[exc |-> e, ret |-> None] : e \in Faults}
    \cup {[exc |-> "none", ret |-> id] :
            id \in 1 .. Cardinality(view.customers) + 1}

get_random_customer_id(view) ==
    {[exc |-> e, ret |-> None] : e \in Faults}
    \cup {[exc |-> "none", ret |-> id] :
            id \in IF view.customers = {} THEN {None} ELSE CustomerIds(view)}

\* insert_order executing its INSERT twice
insert_order_twice(view, customer_id, t, draws) ==
    {[exc |-> e, ret |-> None, orders |-> view.orders, rows |-> 0] :
        e \in Faults}
    \cup {[exc |-> "none", ret |-> Len(view.orders) + 2, rows |-> 2,
           orders |-> view.orders \o
               << Order(customer_id, t, Round2(draw), status),
                  Order(customer_id, t, Round2(draw), status) >>] :
            draw \in draws, status \in ORDER_STATUSES}

insert_order(view, customer_id, t, draws) ==
    {[exc |-> e, ret |-> None, orders |-> view.orders, rows |-> 0] :
        e \in Faults}
    \cup {[exc |-> "none", ret |-> Len(view.orders) + 1, rows |-> 1,
           orders |-> Append(view.orders,
                             Order(customer_id, t, Round2(draw), status))] :
            draw \in draws, status \in ORDER_STATUSES}

\* the SELECT of update_random_order without its WHERE clause
UpdateCandidates_all(view) == OrderIds(view)

\* the ids the SELECT of update_random_order can return
UpdateCandidates(view) ==
    {i \in OrderIds(view) : view.orders[i].status \in UpdatableStatuses}

\* the UPDATE of update_random_order setting order_date with updated_at
update_random_order_redated(view, t) ==
    {[exc |-> e, ret |-> None, orders |-> view.orders, rows |-> 0] :
        e \in Faults}
    \cup IF UpdateCandidates(view) = {}
           THEN {[exc |-> "none", ret |-> None, orders |-> view.orders,
                  rows |-> 0]}
           ELSE {[exc |-> "none", ret |-> order_id, rows |-> 1,
                  orders |-> [view.orders EXCEPT ![order_id] =
                      [@ EXCEPT !.status = new_status, !.updated_at = t,
                                !.order_date = t]]] :
                   order_id \in UpdateCandidates(view),
                   new_status \in NewStatuses}

\* update_random_order reading result[0] without testing the result
update_random_order_unchecked(view, t) ==
    {[exc |-> e, ret |-> None, orders |-> view.orders, rows |-> 0] :
        e \in Faults}
    \cup IF UpdateCandidates(view) = {}
           THEN {[exc |-> "TypeError", ret |-> None, orders |-> view.orders,
                  rows |-> 0]}
           ELSE {[exc |-> "none", ret |-> order_id, rows |-> 1,
                  orders |-> [view.orders EXCEPT ![order_id] =
                      [@ EXCEPT !.status = new_status, !.updated_at = t]]] :
                   order_id \in UpdateCandidates(view),
                   new_status \in NewStatuses}

update_random_order(view, t) ==
    {[exc |-> e, ret |-> None, orders |-> view.orders, rows |-> 0] :
        e \in Faults}
    \cup IF UpdateCandidates(view) = {}
           THEN {[exc |-> "none", ret |-> None, orders |-> view.orders,
                  rows |-> 0]}
           ELSE {[exc |-> "none", ret |-> order_id, rows |-> 1,
                  orders |-> [view.orders EXCEPT ![order_id] =
                      [@ EXCEPT !.status = new_status, !.updated_at = t]]] :
                   order_id \in UpdateCandidates(view),
                   new_status \in NewStatuses}

\* insert_customer without its "except psycopg2.IntegrityError" clause
insert_customer_uncaught(view, email) ==
    {[exc |-> e, ret |-> None, customers |-> view.customers, rows |-> 0] :
        e \in Faults}
    \cup IF email \in CustomerEmails(view)
           THEN {[exc |-> "IntegrityError", ret |-> None,
                  customers |-> view.customers, rows |-> 0]}
           ELSE {[exc |-> "none", ret |-> NextCustomerId(view), rows |-> 1,
                  customers |-> view.customers
                      \cup {Customer(NextCustomerId(view), email)}]}

insert_customer(view, email) ==
    {[exc |-> e, ret |-> None, customers |-> view.customers, rows |-> 0] :
        e \in Faults}
    \cup IF email \in CustomerEmails(view)
           THEN \* psycopg2.IntegrityError, caught: the insert is skipped
                {[exc |-> "none", ret |-> None, customers |-> view.customers,
                  rows |-> 0]}
           ELSE {[exc |-> "none", ret |-> NextCustomerId(view), rows |-> 1,
                  customers |-> view.customers
                      \cup {Customer(NextCustomerId(view), email)}]}

\* ------------------------------------------------------------------ Init
Init ==
    /\ pc = "init_connect"
    /\ conn = "none"
    /\ dbUp \in BOOLEAN
    /\ db \in SeedDbs
    /\ txn = db
    /\ operation = "none"
    /\ operation_count = 0
    /\ now = 0
    /\ generated = {}
    /\ ret = None
    /\ interrupted = FALSE
    /\ exitKind = "running"
    /\ reported = None
    /\ logged = <<>>
    /\ tick = [FreshTick(db) EXCEPT !.slept = None]

ConnectPcs == {"init_connect", "init_retry", "re_connect", "re_retry"}

\* an exception reaches the handler of main; a lost connection takes its
\* uncommitted rows with it
Raised(e, ops) ==
    /\ pc' = "rollback"
    /\ conn' = IF e = "OperationalError" THEN "broken" ELSE conn
    /\ txn' = IF e = "OperationalError" THEN db ELSE txn
    /\ tick' = [tick EXCEPT !.exc = e, !.ops = @ + ops]

\* the operation function returned: main goes on to conn.commit()
Returned(view, r, rows) ==
    /\ pc' = "commit"
    /\ conn' = conn
    /\ txn' = view
    /\ ret' = r
    /\ tick' = [tick EXCEPT !.ops = @ + 1, !.writes = @ + rows]

\* the finally block committing before it closes the connection
Shutdown_commits(kind, entered) ==
    /\ pc' = "done"
    /\ exitKind' = kind
    /\ conn' = "closed"
    /\ db' = IF conn = "open" THEN txn ELSE db
    /\ txn' = db'
    /\ reported' = operation_count
    /\ operation' = "none"
    /\ ret' = None
    /\ tick' = [tick EXCEPT !.before = db', !.ops = @ + entered]

\* The KeyboardInterrupt is caught at line 168 and main leaves through the
\* finally block: the connection is closed, which discards what was not
\* committed, the total is logged, and main's frame is gone; the bookkeeping
\* of the tick that was cut short stays.  entered is 1 when the interrupt
\* was raised inside the operation function the tick had called.
Shutdown(kind, entered) ==
    /\ pc' = "done"
    /\ exitKind' = kind
    /\ conn' = "closed"
    /\ db' = db
    /\ txn' = db
    /\ reported' = operation_count
    /\ operation' = "none"
    /\ ret' = None
    /\ tick' = [tick EXCEPT !.before = db, !.ops = @ + entered]

\* --------------------------------------------------------------- actions
\* the server starts or stops accepting connections; the program observes
\* this only through its connection attempts
DbToggle ==
    /\ pc \in ConnectPcs
    /\ dbUp' = ~dbUp
    /\ UNCHANGED <<pc, conn, db, txn, operation, operation_count, now,
                   generated, ret, interrupted, exitKind, reported, tick,
                   logged>>

\* get_db_connection without the retry loop: a failed attempt returns
ConnectAttempt_once ==
    /\ pc \in {"init_connect", "re_connect"}
    /\ conn' = IF dbUp THEN "open" ELSE conn
    /\ pc' = IF pc = "init_connect" THEN "tick" ELSE "sleep"
    /\ UNCHANGED <<dbUp, db, txn, operation, operation_count, now, generated,
                   ret, interrupted, exitKind, reported, tick, logged>>

\* the handler going back to the top of the loop once reconnected, without
\* reaching time.sleep(WRITE_INTERVAL)
ConnectAttempt_continue ==
    /\ pc \in {"init_connect", "re_connect"}
    /\ IF dbUp
         THEN /\ conn' = "open"
              /\ pc' = "tick"
         ELSE /\ conn' = conn
              /\ pc' = IF pc = "init_connect" THEN "init_retry" ELSE "re_retry"
    /\ UNCHANGED <<dbUp, db, txn, operation, operation_count, now, generated,
                   ret, interrupted, exitKind, reported, tick, logged>>

\* get_db_connection: one psycopg2.connect attempt
ConnectAttempt ==
    /\ pc \in {"init_connect", "re_connect"}
    /\ IF dbUp
         THEN /\ conn' = "open"
              /\ pc' = IF pc = "init_connect" THEN "tick" ELSE "sleep"
         ELSE /\ conn' = conn
              /\ pc' = IF pc = "init_connect" THEN "init_retry" ELSE "re_retry"
    /\ UNCHANGED <<dbUp, db, txn, operation, operation_count, now, generated,
                   ret, interrupted, exitKind, reported, tick, logged>>

\* get_db_connection: time.sleep(5) after a failed attempt
ConnectRetrySleep ==
    /\ pc \in {"init_retry", "re_retry"}
    /\ pc' = IF pc = "init_retry" THEN "init_connect" ELSE "re_connect"
    /\ \E d \in 0 .. 1 : now + d <= MaxTime /\ now' = now + d
    /\ UNCHANGED <<conn, dbUp, db, txn, operation, operation_count,
                   generated, ret, interrupted, exitKind, reported, tick,
                   logged>>

\* main: conn.cursor() and the weighted choice of the operation
BeginTick ==
    /\ pc = "tick"
    /\ operation_count < (IF db.orders = <<>> THEN MaxIdleOps ELSE MaxOps)
    /\ \E op \in Operations :
          /\ op = "insert_order" => Len(txn.orders) < MaxOrders
          /\ op = "insert_customer" =>
                 Cardinality(txn.customers) < MaxCustomers /\ generated # Emails
          /\ operation' = op
    /\ pc' = "op"
    /\ ret' = None
    /\ tick' = FreshTick(db)
    /\ UNCHANGED <<conn, dbUp, db, txn, operation_count, now, generated,
                   interrupted, exitKind, reported, logged>>

\* main: the insert_order branch, get_random_customer_id then insert_order,
\* with random.uniform drawing from draws
InsertOrderBranch(draws) ==
    /\ pc = "op" /\ operation = "insert_order"
    /\ \E c \in get_random_customer_id(txn) :
         IF c.exc # "none"
           THEN Raised(c.exc, 0) /\ ret' = ret
           ELSE IF Truthy(c.ret)
                  THEN \E r \in insert_order(txn, c.ret, now, draws) :
                         IF r.exc # "none"
                           THEN Raised(r.exc, 1) /\ ret' = ret
                           ELSE Returned([txn EXCEPT !.orders = r.orders], r.ret,
                                         r.rows)
                  ELSE /\ pc' = "commit"
                       /\ UNCHANGED <<conn, txn, ret, tick>>
    /\ UNCHANGED <<dbUp, db, operation, operation_count, now, generated,
                   interrupted, exitKind, reported, logged>>

DoInsertOrder == InsertOrderBranch(AmountDraws)

\* the insert_order branch filling the empty orders table, the amount drawn
\* from both ends of the interval
DoInsertOrderDrawn == txn.orders = <<>> /\ InsertOrderBranch(UniformDraws)

\* main: the update_order branch, update_random_order
DoUpdateOrder ==
    /\ pc = "op" /\ operation = "update_order"
    /\ \E r \in update_random_order(txn, now) :
         IF r.exc # "none"
           THEN Raised(r.exc, 1) /\ ret' = ret
           ELSE Returned([txn EXCEPT !.orders = r.orders], r.ret,
                                         r.rows)
    /\ UNCHANGED <<dbUp, db, operation, operation_count, now, generated,
                   interrupted, exitKind, reported, logged>>

\* main: the insert_customer branch, insert_customer
DoInsertCustomer ==
    /\ pc = "op" /\ operation = "insert_customer"
    /\ \E email \in Emails \ generated :
         /\ generated' = generated \cup {email}
         /\ \E r \in insert_customer(txn, email) :
              IF r.exc # "none"
                THEN Raised(r.exc, 1) /\ ret' = ret
                ELSE Returned([txn EXCEPT !.customers = r.customers], r.ret,
                              r.rows)
    /\ UNCHANGED <<dbUp, db, operation, operation_count, now, interrupted,
                   exitKind, reported, logged>>

\* main: conn.commit() with the count incremented whether or not it returns
Commit_counts_failure ==
    /\ pc = "commit"
    /\ \E e \in {"none"} \cup Faults :
         IF e = "none"
           THEN /\ db' = txn
                /\ pc' = "count"
                /\ tick' = [tick EXCEPT !.commits = @ + 1]
                /\ UNCHANGED <<conn, txn, operation_count>>
           ELSE /\ Raised(e, 0)
                /\ operation_count' = operation_count + 1
                /\ UNCHANGED db
    /\ UNCHANGED <<dbUp, operation, now, generated, ret, interrupted,
                   exitKind, reported, logged>>

\* main: conn.commit()
Commit ==
    /\ pc = "commit"
    /\ \E e \in {"none"} \cup Faults :
         IF e = "none"
           THEN /\ db' = txn
                /\ pc' = "count"
                /\ tick' = [tick EXCEPT !.commits = @ + 1]
                /\ UNCHANGED <<conn, txn>>
           ELSE /\ Raised(e, 0)
                /\ UNCHANGED db
    /\ UNCHANGED <<dbUp, operation, operation_count, now, generated, ret,
                   interrupted, exitKind, reported, logged>>

\* main: "operation_count += 1" and the test of the count
Count ==
    /\ pc = "count"
    /\ operation_count' = operation_count + 1
    /\ pc' = IF LogDue(operation_count + 1) THEN "log" ELSE "sleep"
    /\ tick' = [tick EXCEPT !.counted = @ + 1]
    /\ UNCHANGED <<conn, dbUp, db, txn, operation, now, generated, ret,
                   interrupted, exitKind, reported, logged>>

\* main: the log of the running total
LogTotal ==
    /\ pc = "log"
    /\ logged' = Append(logged, operation_count)
    /\ pc' = "sleep"
    /\ UNCHANGED <<conn, dbUp, db, txn, operation, operation_count, now,
                   generated, ret, interrupted, exitKind, reported, tick>>

\* the handler with conn.commit() in the place of conn.rollback()
HandlerRollback_commits ==
    /\ pc = "rollback"
    /\ \E e \in {"none", "OperationalError"} :
         IF conn = "open" /\ e = "none"
           THEN /\ db' = txn
                /\ pc' = "close"
                /\ tick' = [tick EXCEPT !.commits = @ + 1]
                /\ UNCHANGED <<conn, txn>>
           ELSE /\ pc' = "finally_close"
                /\ conn' = "broken"
                /\ txn' = db
                /\ UNCHANGED <<db, tick>>
    /\ UNCHANGED <<dbUp, operation, operation_count, now, generated, ret,
                   interrupted, exitKind, reported, logged>>

\* main: the handler's conn.rollback()
HandlerRollback ==
    /\ pc = "rollback"
    /\ \E e \in {"none", "OperationalError"} :
         IF conn = "open" /\ e = "none"
           THEN /\ txn' = db
                /\ pc' = "close"
                /\ tick' = [tick EXCEPT !.rollbacks = @ + 1]
                /\ UNCHANGED conn
           ELSE \* rollback() raises inside the handler: nothing catches it,
                \* the exception leaves main through the finally block
                /\ pc' = "finally_close"
                /\ conn' = "broken"
                /\ txn' = db
                /\ UNCHANGED tick
    /\ UNCHANGED <<dbUp, db, operation, operation_count, now, generated, ret,
                   interrupted, exitKind, reported, logged>>

\* main, leaving with the exception: the finally block's conn.close()
FinallyClose ==
    /\ pc = "finally_close"
    /\ conn' = "closed"
    /\ pc' = "finally_log"
    /\ UNCHANGED <<dbUp, db, txn, operation, operation_count, now, generated,
                   ret, interrupted, exitKind, reported, tick, logged>>

\* main, leaving with the exception: the finally block's log of the total,
\* after which the exception ends main
FinallyLog ==
    /\ pc = "finally_log"
    /\ reported' = operation_count
    /\ pc' = "done"
    /\ exitKind' = "exception"
    /\ operation' = "none"
    /\ ret' = None
    /\ tick' = [tick EXCEPT !.before = db]
    /\ UNCHANGED <<conn, dbUp, db, txn, operation_count, now, generated,
                   interrupted, logged>>

\* main: the handler's conn.close()
HandlerClose ==
    /\ pc = "close"
    /\ conn' = "closed"
    /\ pc' = "re_connect"
    /\ UNCHANGED <<dbUp, db, txn, operation, operation_count, now, generated,
                   ret, interrupted, exitKind, reported, tick, logged>>

\* main: time.sleep(WRITE_INTERVAL), the end of the tick
Sleep ==
    /\ pc = "sleep"
    /\ pc' = "tick"
    /\ \E d \in 0 .. 1 : now + d <= MaxTime /\ now' = now + d
    /\ operation' = "none"
    /\ ret' = None
    /\ tick' = [FreshTick(db) EXCEPT !.slept = tick.slept + 1]
    /\ UNCHANGED <<conn, dbUp, db, txn, operation_count, generated,
                   interrupted, exitKind, reported, logged>>

\* the operation function of the tick can have been called when the
\* interrupt is raised in the branch of the operation
CanEnter ==
    operation = "insert_order" => \E id \in CustomerIds(txn) : Truthy(id)

\* a KeyboardInterrupt is delivered
Interrupt ==
    /\ ~interrupted
    /\ pc # "done"
    /\ interrupted' = TRUE
    /\ CASE pc \in {"init_connect", "init_retry"} ->
              \* line 126 is outside the try: nothing catches it
              /\ pc' = "done"
              /\ exitKind' = "uncaught_interrupt"
              /\ UNCHANGED <<conn, db, txn, reported, operation, ret, tick,
                             generated>>
         [] pc \in {"finally_close", "finally_log"} ->
              \* raised inside the finally block: it replaces the exception
              \* main was leaving with, and the rest of the block is skipped;
              \* the call it is raised in has or has not had its effect
              /\ pc' = "done"
              /\ exitKind' = "uncaught_interrupt"
              /\ conn' \in IF pc = "finally_close"
                             THEN {conn, "closed"} ELSE {conn}
              /\ reported' \in IF pc = "finally_log"
                                 THEN {reported, operation_count}
                                 ELSE {reported}
              /\ UNCHANGED <<db, txn, operation, ret, tick, generated>>
         [] pc = "close" ->
              \* raised inside the try of line 160, the bare except swallows
              \* it; raised before that try is entered, it is caught at
              \* line 168
              \/ /\ pc' = "re_connect"
                 /\ conn' \in {conn, "closed"}
                 /\ UNCHANGED <<exitKind, db, txn, reported, operation, ret,
                                tick, generated>>
              \/ Shutdown("interrupt", 0) /\ generated' = generated
         [] pc = "op" ->
              \* raised before the operation function is called, or inside
              \* it before its INSERT or UPDATE
              \E n \in {0} \cup (IF CanEnter THEN {1} ELSE {}) :
                  /\ Shutdown("interrupt", n)
                  /\ generated' \in
                       IF n = 1 /\ operation = "insert_customer"
                         THEN {generated} \cup
                              {generated \cup {e} : e \in Emails \ generated}
                         ELSE {generated}
         [] OTHER ->
              \* except KeyboardInterrupt, then the finally block
              Shutdown("interrupt", 0) /\ generated' = generated
    /\ UNCHANGED <<dbUp, operation_count, now, logged>>

Next ==
    \/ DbToggle
    \/ ConnectAttempt
    \/ ConnectRetrySleep
    \/ BeginTick
    \/ DoInsertOrder
    \/ DoUpdateOrder
    \/ DoInsertCustomer
    \/ DoInsertCustomer
    \/ Commit
    \/ Count
    \/ LogTotal
    \/ HandlerRollback
    \/ FinallyClose
    \/ FinallyLog
    \/ HandlerClose
    \/ Sleep
    \/ Interrupt

Spec == Init /\ [][Next]_vars

\* The process keeps executing: inside get_db_connection its next statement is
\* eventually run.  Used for the claims about what eventually happens; started
\* on the empty database, from which every table state is built by the
\* generator itself.
InitLive == Init /\ db.customers = {}

SpecLive ==
    /\ InitLive
    /\ [][Next]_vars
    /\ WF_vars(ConnectAttempt)
    /\ WF_vars(ConnectRetrySleep)

\* The generator started on a database with one customer, against a server
\* that stays up and with no interrupt delivered, its first order drawn from
\* both ends of the interval of amounts.
InitAmounts == Init /\ db.customers = {Customer(1, "a@x")} /\ dbUp

NextAmounts ==
    \/ ConnectAttempt
    \/ BeginTick
    \/ DoInsertOrderDrawn
    \/ DoInsertOrder
    \/ DoUpdateOrder
    \/ DoInsertCustomer
    \/ Commit
    \/ Count
    \/ LogTotal
    \/ HandlerRollback
    \/ FinallyClose
    \/ FinallyLog
    \/ HandlerClose
    \/ Sleep

SpecAmounts == InitAmounts /\ [][NextAmounts]_vars

\* ----------------------------------------------------------------- claims
Terminal == {"delivered", "cancelled"}

\* the step is one of the program's own, not the delivery of the interrupt
ProgramStep == interrupted' = interrupted /\ pc' # pc

\* C1: absent an interrupt, main never terminates, whatever exception a tick
\* raised (a lost connection included).
C1_MainNeverTerminates ==
    ~interrupted => pc # "done"

\* C2: in a tick in which an exception reached the handler of main, the
\* committed tables are what they were when the tick began.
C2_FailedTickInvisible ==
    tick.exc # "none" => db = tick.before

\* C2 witness: the tick wrote a row, its commit raised, the handler rolled back
C2_Witness ==
    /\ pc = "close"
    /\ tick.exc = "DatabaseError"
    /\ tick.writes = 1
    /\ tick.rollbacks = 1

\* C3: inside get_db_connection a failed attempt is followed by the retry
\* sleep and the sleep by another attempt, the call returns only with an open
\* connection and lets no exception out, and once the server accepts
\* connections for good the call returns.
C3_ConnectNeverFails ==
    /\ [][ (pc \in ConnectPcs /\ ProgramStep) =>
             /\ exitKind' = exitKind
             /\ pc = "init_connect" =>
                    \/ pc' = "init_retry" /\ conn' = conn
                    \/ pc' = "tick" /\ conn' = "open"
             /\ pc = "re_connect" =>
                    \/ pc' = "re_retry" /\ conn' = conn
                    \/ pc' = "sleep" /\ conn' = "open"
             /\ pc = "init_retry" => pc' = "init_connect"
             /\ pc = "re_retry" => pc' = "re_connect" ]_vars
    /\ (<>[]dbUp /\ []~interrupted) =>
           [](pc \in ConnectPcs => <>(pc \notin ConnectPcs /\ conn = "open"))

\* C3 witness: a reconnect that failed at least once has returned
C3_Witness ==
    /\ pc = "sleep"
    /\ tick.exc # "none"
    /\ conn = "open"
    /\ now > 0
    /\ db = tick.before

\* C4: whenever the interrupt arrives the loop exits, the connection is
\* closed and the total is reported before the process ends.
C4_InterruptShutsDown ==
    interrupted =>
        /\ pc = "done"
        /\ reported = operation_count
        /\ conn = "closed"

\* C5 as stated: every tick executes exactly one of the three operation
\* functions, writes at most one row and ends with exactly one commit or one
\* rollback.
C5_ExactlyOneOperation ==
    pc = "sleep" =>
        /\ tick.ops = 1
        /\ tick.writes <= 1
        /\ tick.commits + tick.rollbacks = 1

\* C5 amended: every tick selects exactly one operation and executes at most
\* one operation function, none only when insert_order was selected and no
\* usable customer id was obtained; it writes at most one row, and a tick that
\* is followed by another ends with exactly one commit or one rollback.
C5_AtMostOneOperation ==
    /\ tick.ops <= 1
    /\ tick.writes <= tick.ops
    /\ tick.commits + tick.rollbacks <= 1
    /\ pc = "sleep" =>
          /\ operation \in Operations
          /\ tick.ops = 0 => operation = "insert_order"
          /\ tick.commits + tick.rollbacks = 1
          /\ tick.commits = 1 <=> tick.exc = "none"

\* C5 witness: a tick that selected insert_order and ran no operation function
C5_Witness ==
    /\ pc = "sleep"
    /\ operation = "insert_order"
    /\ tick.ops = 0
    /\ tick.commits = 1

\* C6: in every committed state each order's customer_id is the id of a row
\* of the customers table.
C6_OrdersReferenceCustomers ==
    \A i \in OrderIds(db) : db.orders[i].customer_id \in CustomerIds(db)

\* C6 witness: an order is committed, there are two customers, and a later
\* tick has failed
C6_Witness ==
    /\ pc = "sleep"
    /\ tick.exc # "none"
    /\ Len(db.orders) >= 1
    /\ Cardinality(db.customers) = 2

\* C7: a committed order that is delivered or cancelled keeps its status and
\* updated_at in every later step, and update_random_order changes only
\* orders whose status was pending, processing or shipped.
C7_TerminalStatusesStay ==
    [][ /\ \A i \in OrderIds(db) :
             db.orders[i].status \in Terminal =>
                 /\ i \in OrderIds(db')
                 /\ db'.orders[i].status = db.orders[i].status
                 /\ db'.orders[i].updated_at = db.orders[i].updated_at
        /\ (pc = "op" /\ operation = "update_order") =>
             \A i \in OrderIds(txn) :
                 txn'.orders[i] # txn.orders[i] =>
                     txn.orders[i].status \in {"pending", "processing", "shipped"}
      ]_vars

\* C7 witness: an update was committed while another order was cancelled
C7_Witness ==
    /\ pc = "sleep"
    /\ operation = "update_order"
    /\ tick.commits = 1
    /\ ret # None
    /\ \E i \in OrderIds(db) : i # ret /\ db.orders[i].status = "cancelled"

\* C8: when update_random_order returns and an order was pending, processing
\* or shipped, it has updated exactly one such order, to processing, shipped
\* or delivered, with updated_at the current time and not before the order's
\* order_date, and it returns that order's id.
C8_UpdateOneEligibleOrder ==
    [][ (/\ pc = "op" /\ operation = "update_order"
         /\ UpdateCandidates(txn) # {}
         /\ pc' = "commit") =>
            /\ ret' \in OrderIds(txn)
            /\ txn.orders[ret'].status \in {"pending", "processing", "shipped"}
            /\ Len(txn'.orders) = Len(txn.orders)
            /\ \A i \in OrderIds(txn) \ {ret'} : txn'.orders[i] = txn.orders[i]
            /\ txn'.orders[ret'].status \in {"processing", "shipped", "delivered"}
            /\ txn'.orders[ret'].updated_at = now
            /\ txn'.orders[ret'].updated_at >= txn.orders[ret'].order_date
            /\ txn'.orders[ret'] =
                  [txn.orders[ret'] EXCEPT
                      !.status = txn'.orders[ret'].status, !.updated_at = now]
            /\ txn'.customers = txn.customers
      ]_vars

\* C8 witness: the second of two orders was updated after its order_date
C8_Witness ==
    /\ pc = "commit"
    /\ operation = "update_order"
    /\ ret = 2
    /\ txn.orders[ret].updated_at > txn.orders[ret].order_date
    /\ txn.orders[ret].status = "delivered"

\* C9: when update_random_order runs and no order is pending, processing or
\* shipped, no row changes, the only exceptions it lets out are those the
\* database call itself raised, and otherwise it returns None.
C9_UpdateWithoutEligibleOrder ==
    [][ (/\ pc = "op" /\ operation = "update_order"
         /\ UpdateCandidates(txn) = {}
         /\ ProgramStep) =>
            /\ db' = db
            /\ txn' = txn
            /\ tick'.exc \in {"none"} \cup Faults
            /\ tick'.exc = "none" => pc' = "commit" /\ ret' = None
      ]_vars

\* C9 witness: update_random_order returned None with only terminal orders
C9_Witness ==
    /\ pc = "commit"
    /\ operation = "update_order"
    /\ tick.ops = 1
    /\ ret = None
    /\ Len(txn.orders) >= 1
    /\ \A i \in OrderIds(txn) : txn.orders[i].status \in Terminal

\* the tick selected insert_order and the customers table is empty
SkipCase == operation = "insert_order" /\ txn.customers = {}

\* C10: when insert_order is selected and there is no customer, no order row
\* is inserted, the only exceptions are those a database call itself raised,
\* and otherwise the tick commits and ends on the same connection.
C10_InsertOrderWithoutCustomers ==
    [][ /\ (SkipCase /\ pc = "op" /\ ProgramStep) =>
             /\ db' = db
             /\ txn' = txn
             /\ tick'.exc \in {"none"} \cup Faults
             /\ tick'.exc = "none" =>
                    pc' = "commit" /\ conn' = conn /\ tick'.ops = 0
        /\ (SkipCase /\ pc = "commit" /\ ProgramStep) =>
             /\ db'.orders = db.orders
             /\ tick'.exc \in {"none"} \cup Faults
             /\ tick'.exc = "none" =>
                    pc' = "count" /\ conn' = conn /\ conn' = "open"
        /\ (SkipCase /\ pc \in {"count", "log"} /\ ProgramStep) =>
             /\ db' = db
             /\ conn' = conn
             /\ pc' \in {"log", "sleep"}
      ]_vars

\* C10 witness: such a tick was committed and the loop is at its sleep
C10_Witness ==
    /\ pc = "sleep"
    /\ operation = "insert_order"
    /\ db.customers = {}
    /\ tick.ops = 0
    /\ tick.commits = 1
    /\ conn = "open"

\* C11: when insert_order is selected and the customers table holds at least
\* one row, whatever its id, the tick inserts exactly one new order row whose
\* customer_id is the id of an existing customer.
C11_InsertOrderWithCustomers ==
    (pc = "commit" /\ operation = "insert_order" /\ db.customers # {}) =>
        /\ Len(txn.orders) = Len(db.orders) + 1
        /\ txn.orders[Len(txn.orders)].customer_id \in CustomerIds(db)
        /\ \A i \in OrderIds(db) : txn.orders[i] = db.orders[i]

\* C12: when the INSERT of insert_customer meets an e-mail the table already
\* holds, no customer row is added, insert_customer returns None and lets out
\* no exception of its own (the only ones are those the database call itself
\* raised), and the tick commits and ends on the same connection.
C12_DuplicateEmailHandled ==
    [][ /\ (/\ pc = "op" /\ operation = "insert_customer" /\ ProgramStep
            /\ (generated' \ generated) \subseteq CustomerEmails(txn)) =>
               /\ db' = db
               /\ txn' = txn
               /\ tick'.exc \in {"none"} \cup Faults
               /\ tick'.exc = "none" =>
                      pc' = "commit" /\ ret' = None /\ conn' = conn
        /\ (/\ pc = "commit" /\ operation = "insert_customer" /\ ret = None
            /\ ProgramStep) =>
               /\ db'.customers = db.customers
               /\ tick'.exc \in {"none"} \cup Faults
               /\ tick'.exc = "none" =>
                      pc' = "count" /\ conn' = conn /\ conn' = "open"
        /\ (/\ pc \in {"count", "log"} /\ operation = "insert_customer"
            /\ ret = None /\ ProgramStep) =>
               /\ db' = db
               /\ conn' = conn
               /\ pc' \in {"log", "sleep"}
      ]_vars

\* C12 witness: insert_customer met a taken e-mail and the tick was committed
C12_Witness ==
    /\ pc = "sleep"
    /\ operation = "insert_customer"
    /\ tick.ops = 1
    /\ tick.writes = 0
    /\ tick.commits = 1
    /\ ret = None
    /\ conn = "open"

\* C13: every order row has a total_amount between 10.00 and 1000.00 held
\* as a number of cents, one of the five statuses, and an order_date that is
\* the time of its insertion; no later step changes the total_amount or the
\* order_date of an order.
C13_OrderRowWellFormed ==
    /\ [](\A view \in {db, txn} : \A i \in OrderIds(view) :
            /\ view.orders[i].total_amount \in 1000 .. 100000
            /\ view.orders[i].status \in
                   {"pending", "processing", "shipped", "delivered", "cancelled"}
            /\ view.orders[i].order_date \in 0 .. now)
    /\ [][ /\ \A i \in OrderIds(txn) \cap OrderIds(txn') :
                /\ txn'.orders[i].total_amount = txn.orders[i].total_amount
                /\ txn'.orders[i].order_date = txn.orders[i].order_date
           /\ \A i \in OrderIds(db) :
                /\ i \in OrderIds(db')
                /\ db'.orders[i].total_amount = db.orders[i].total_amount
                /\ db'.orders[i].order_date = db.orders[i].order_date
           /\ \A i \in OrderIds(txn') \ OrderIds(txn) :
                txn'.orders[i].order_date = now
         ]_vars

\* C13 witness: an order of 10.00 and one of 1000.00 are committed, inserted
\* at different times, and one of them has been updated since
C13_Witness ==
    /\ Len(db.orders) = 2
    /\ {db.orders[i].total_amount : i \in OrderIds(db)} = {1000, 99988}
    /\ db.orders[1].order_date # db.orders[2].order_date
    /\ \E i \in OrderIds(db) : db.orders[i].updated_at # None

\* C14: a tick begins only at the top of the loop, and except for the first
\* one only after exactly one time.sleep(WRITE_INTERVAL) since the tick
\* before it began; the operation and the commit of a tick are not attempted
\* again by the handler, which only rolls back, closes and reconnects, and
\* the sleep is reached only with the connection (re)established.
C14_OneSleepBetweenTicks ==
    /\ [](pc = "sleep" => conn = "open")
    /\ [][ /\ (pc' = "op" /\ pc # "op") =>
                  pc = "tick" /\ tick.slept \in {None, 1}
           /\ (pc' = "commit" /\ pc # "commit") => pc = "op"
           /\ (pc' = "count" /\ pc # "count") => pc = "commit"
           /\ (pc' = "tick" /\ pc # "tick") => pc \in {"init_connect", "sleep"}
           /\ (pc' = "sleep" /\ pc # "sleep") =>
                  \/ pc \in {"count", "log"} /\ tick'.exc = "none"
                  \/ pc = "re_connect" /\ tick'.exc # "none" /\ conn' = "open"
           /\ (pc \in {"rollback", "close", "re_connect", "re_retry"}
               /\ ProgramStep) =>
                  pc' \in {"close", "re_connect", "re_retry", "sleep",
                          "finally_close"}
         ]_vars

\* C14 witness: a tick has failed, the handler has reconnected and the loop
\* has slept once; the next tick is about to begin
C14_Witness ==
    /\ pc = "tick"
    /\ tick.slept = 1
    /\ operation_count = 0
    /\ conn = "open"
    /\ now = 1

\* C15 as stated: the running total is logged exactly by the ticks whose
\* commit brings operation_count to a positive multiple of 10, once for each
\* multiple reached.
C15_TotalLoggedEveryTenth ==
    pc # "log" =>
        /\ Len(logged) = operation_count \div 10
        /\ \A i \in 1 .. Len(logged) : logged[i] = 10 * i

\* C15 amended: the running total is logged only by a tick whose commit
\* returned and brought operation_count to a positive multiple of 10, with
\* that total and at most once for each multiple; every multiple reached is
\* logged by its tick unless the interrupt ends main between the increment
\* and the log.
C15_TotalLoggedAtMostOnce ==
    /\ [](/\ \A i \in 1 .. Len(logged) : logged[i] = 10 * i
          /\ Len(logged) <= operation_count \div 10
          /\ pc \notin {"log", "done"} =>
                 Len(logged) = operation_count \div 10
          /\ pc \in {"log", "done"} =>
                 Len(logged) >= operation_count \div 10 - 1)
    /\ [][ /\ logged' # logged =>
                /\ pc = "log"
                /\ tick.commits = 1 /\ tick.counted = 1 /\ tick.exc = "none"
                /\ operation_count > 0 /\ operation_count % 10 = 0
                /\ operation_count' = operation_count
                /\ logged' = Append(logged, operation_count)
           /\ (pc = "log" /\ ProgramStep) =>
                logged' = Append(logged, operation_count)
           /\ (pc = "count" /\ ProgramStep) =>
                (pc' = "log" <=> operation_count' % 10 = 0)
         ]_vars

\* C15 witness: the total 10 was logged by its tick, and main was interrupted
\* after the twentieth count and before the log of it
C15_Witness ==
    /\ pc = "done"
    /\ operation_count = 20
    /\ logged = <<10>>
    /\ tick.counted = 1

\* C16: the loop owns one connection: a tick runs only on the open connection
\* main holds, and when the handler obtains a replacement the connection it
\* replaces is no longer open, so that no two connections opened by the
\* program are open at once.
C16_OneConnection ==
    /\ [](pc \in {"tick", "op", "commit", "sleep"} => conn = "open")
    /\ [][ (pc = "re_connect" /\ conn' = "open" /\ pc' = "sleep") =>
               conn # "open" ]_vars

\* C17: no step changes or removes a committed customer row or removes a
\* committed order row; the insert_order and update_order branches leave the
\* customers table as it is and the insert_customer branch the orders table;
\* update_random_order changes at most one order, and of it only status and
\* updated_at.
C17_FrameOfOperations ==
    [][ /\ db.customers \subseteq db'.customers
        /\ Len(db'.orders) >= Len(db.orders)
        /\ \A i \in OrderIds(db) :
             /\ db'.orders[i].customer_id = db.orders[i].customer_id
             /\ db'.orders[i].total_amount = db.orders[i].total_amount
             /\ db'.orders[i].order_date = db.orders[i].order_date
        /\ (pc = "op" /\ operation \in {"insert_order", "update_order"}) =>
             txn'.customers = txn.customers
        /\ (pc = "op" /\ operation = "insert_order") =>
             \A i \in OrderIds(txn) : txn'.orders[i] = txn.orders[i]
        /\ (pc = "op" /\ operation = "insert_customer") =>
             /\ txn'.orders = txn.orders
             /\ txn.customers \subseteq txn'.customers
        /\ (pc = "op" /\ operation = "update_order") =>
             /\ Len(txn'.orders) = Len(txn.orders)
             /\ Cardinality({i \in OrderIds(txn) :
                                txn'.orders[i] # txn.orders[i]}) <= 1
             /\ \A i \in OrderIds(txn) :
                  txn'.orders[i] =
                      [txn.orders[i] EXCEPT
                          !.status = txn'.orders[i].status,
                          !.updated_at = txn'.orders[i].updated_at]
      ]_vars

\* C17 witness: with two orders committed, an update of the first one has
\* been committed
C17_Witness ==
    /\ pc = "sleep"
    /\ operation = "update_order"
    /\ tick.writes = 1
    /\ tick.commits = 1
    /\ ret = 1
    /\ Len(db.orders) = 2
    /\ db.customers # {}

\* C18 as stated: operation_count always equals the number of ticks whose
\* commit returned (each such tick has been counted once its increment is
\* past), and the total reported at shutdown is this number.
C18_CountIsCommittedTicks ==
    /\ pc # "count" => tick.counted = tick.commits
    /\ reported # None => reported = operation_count

\* C18 amended: operation_count is changed only by the increment that follows
\* a commit that returned, by one, whether or not the tick wrote a row; a tick
\* that raised does not change it; it equals the number of ticks whose commit
\* returned except that a tick cut short by the interrupt between the commit
\* and the increment is committed and not counted; the total reported at
\* shutdown is operation_count.
C18_CountFollowsCommit ==
    /\ [](/\ tick.counted <= tick.commits
          /\ pc \notin {"count", "done"} => tick.counted = tick.commits
          /\ pc = "count" => tick.commits = 1 /\ tick.counted = 0
          /\ reported # None => reported = operation_count)
    /\ [][ /\ operation_count' # operation_count =>
                /\ pc = "count"
                /\ tick.commits = 1 /\ tick.exc = "none"
                /\ operation_count' = operation_count + 1
           /\ (pc = "count" /\ ProgramStep) =>
                operation_count' = operation_count + 1
           /\ tick'.exc # "none" => operation_count' = operation_count
           /\ reported' # reported => reported' = operation_count
         ]_vars

\* C18 witness: two ticks that wrote nothing were counted; the tick that
\* committed the first customer was cut short before the increment, and 2 was
\* reported
C18_Witness ==
    /\ pc = "done"
    /\ reported = 2
    /\ tick.commits = 1
    /\ tick.counted = 0
    /\ tick.writes = 1
    /\ db.orders = <<>>
    /\ Cardinality(db.customers) = 1
    /\ generated = CustomerEmails(db)

\* C19: when the interrupt arrives after the operation of a tick wrote a row
\* and before conn.commit() has returned, main ends with the connection
\* closed and nothing committed: the committed tables are those from before
\* the tick, then and ever after, and operation_count, which is the total
\* reported, does not count the tick.
C19_InterruptBeforeCommit ==
    /\ [][ (pc = "commit" /\ txn # db /\ ~interrupted /\ interrupted') =>
               /\ pc' = "done"
               /\ conn' = "closed"
               /\ db' = db
               /\ txn' = db
               /\ operation_count' = operation_count
               /\ reported' = operation_count
               /\ logged' = logged
         ]_vars
    /\ [][ pc = "done" => db' = db /\ operation_count' = operation_count ]_vars
    /\ [](/\ pc = "done" /\ exitKind = "interrupt"
          /\ tick.writes = 1 /\ tick.commits = 0
          => db = tick.before)

\* C19 witness: main was interrupted between the INSERT of a customer and the
\* commit; the customer is not in the table and the tick is not in the total
C19_Witness ==
    /\ pc = "done"
    /\ exitKind = "interrupt"
    /\ tick.ops = 1
    /\ tick.writes = 1
    /\ tick.commits = 0
    /\ tick.exc = "none"
    /\ generated = {"b@x"}
    /\ CustomerEmails(db) = {"a@x"}
    /\ reported = 0

====
